---- MODULE Spec2Model ----
(***************************************************************************)
(* State/transaction core of the editor.                                   *)
(*                                                                         *)
(* Two generations of the core live in the repository and are modelled     *)
(* side by side:                                                           *)
(*   - the self-contained core (Range, Selection, Change, Transaction,     *)
(*     Configuration, StateField and its own EditorState), specification   *)
(*     Spec;                                                               *)
(*   - the slot-based EditorState of state/src/state.ts (status/values     *)
(*     arrays, field(), facet(), applyTransaction), specification          *)
(*     SpecSlots;                                                          *)
(*   - the pure Change algebra on its own, specification SpecChange.       *)
(* A document is a sequence of one-character strings; an offset p names    *)
(* the place between element p and element p+1.                            *)
(***************************************************************************)
EXTENDS Integers, Sequences, FiniteSets, TLC

\* ------------------------------------------------------------------ bounds
MaxDoc == 2        \* length of the documents a session starts from
MaxOps == 3        \* builder calls made on one transaction chain
MaxStates == 2     \* EditorState objects alive in one session

VARIABLES
  states,     \* the EditorState objects of the session, by creation order
  tr,         \* the transaction under construction (NoTr: none opened yet)
  ops,        \* number of builder calls made on tr's chain
  calls,      \* history: the change/setSelection calls made on tr's chain
  fcalls,     \* history: the calls of f made by the last reduceRanges
  applyLog,   \* history: the field rules run by the last Transaction.apply
  lastOp,     \* history: the operation that led to this state
  heap,       \* SpecSlots: the slot-based EditorState objects, by construction order
  arrays,     \* SpecSlots: the value arrays those objects refer to
  handles,    \* SpecSlots: the objects that were returned to a caller
  outcome,    \* SpecSlots: the last operation, what it returned and what it logged
  pin,        \* SpecChange, SpecConfig: the input under study
  pout,       \* SpecChange, SpecConfig: the last operation and its result
  objs,       \* SpecObjects: every object allocated, by allocation order
  done        \* SpecObjects: the last operation, its receiver and what it returned

trVars == <<states, tr, ops, calls, fcalls, applyLog, lastOp>>
slotVars == <<heap, arrays, handles, outcome>>
pureVars == <<pin, pout>>
objVars == <<objs, done>>
vars == <<states, tr, ops, calls, fcalls, applyLog, lastOp, heap, arrays, handles, outcome,
          pin, pout, objs, done>>

\* ----------------------------------------------------------------- helpers
Min(a, b) == IF a < b THEN a ELSE b
Max(a, b) == IF a > b THEN a ELSE b

\* Number.undefined: what a property read gives when nothing was stored.
Undefined == -1

\* ------------------------------------------------------------------- Text
\* The document-storage collaborator: length, slice, replace.
TextSlice(doc, from, to) == SubSeq(doc, from + 1, to)
TextReplace(doc, from, to, text) ==
  SubSeq(doc, 1, from) \o text \o SubSeq(doc, to + 1, Len(doc))

\* ----------------------------------------------------------------- Change
Change(from, to, text) == [from |-> from, to |-> to, text |-> text]

\* invert as it would be had the inverse kept the change's own end.
invertKeepTo(c, doc) ==
  Change(c.from, c.to, TextSlice(doc, c.from, c.to))

\* Change.invert
invert(c, doc) ==
  Change(c.from, c.from + Len(c.text), TextSlice(doc, c.from, c.to))

\* mapPos as it would be had a position behind the change been moved by the
\* inserted length alone.
mapPosNoDeletion(c, pos, bias) ==
  IF pos < c.from \/ (bias < 0 /\ pos = c.from) THEN pos
  ELSE IF pos > c.to THEN pos + Len(c.text)
  ELSE LET side == IF c.from = c.to THEN bias
                   ELSE IF pos = c.from THEN -1
                   ELSE IF pos = c.to THEN 1
                   ELSE bias
       IN c.from + (IF side < 0 THEN 0 ELSE Len(c.text))

\* mapPos as it would be had the end of a replaced stretch followed the bias
\* like the positions inside it.
mapPosBiasAtEnd(c, pos, bias) ==
  IF pos < c.from \/ (bias < 0 /\ pos = c.from) THEN pos
  ELSE IF pos > c.to THEN pos + Len(c.text) - (c.to - c.from)
  ELSE LET side == IF c.from = c.to THEN bias
                   ELSE IF pos = c.from THEN -1
                   ELSE bias
       IN c.from + (IF side < 0 THEN 0 ELSE Len(c.text))

\* mapPos as it would be had a position at the change's start always stayed,
\* whatever the bias.
mapPosStickyStart(c, pos, bias) ==
  IF pos <= c.from THEN pos
  ELSE IF pos > c.to THEN pos + Len(c.text) - (c.to - c.from)
  ELSE LET side == IF pos = c.to THEN 1 ELSE bias
       IN c.from + (IF side < 0 THEN 0 ELSE Len(c.text))

\* Change.mapPos
mapPos(c, pos, bias) ==
  IF pos < c.from \/ (bias < 0 /\ pos = c.from) THEN pos
  ELSE IF pos > c.to THEN pos + Len(c.text) - (c.to - c.from)
  ELSE LET side == IF c.from = c.to THEN bias
                   ELSE IF pos = c.from THEN -1
                   ELSE IF pos = c.to THEN 1
                   ELSE bias
       IN c.from + (IF side < 0 THEN 0 ELSE Len(c.text))

\* Change.apply
ChangeApply(c, doc) == TextReplace(doc, c.from, c.to, c.text)

\* ------------------------------------------------------------------ Range
Range(anchor, head) == [anchor |-> anchor, head |-> head]
RangeFrom(r) == Min(r.anchor, r.head)
RangeTo(r) == Max(r.anchor, r.head)

\* Range.map (mapPos with its default bias of 1)
RangeMap(r, c) == Range(mapPos(c, r.anchor, 1), mapPos(c, r.head, 1))

\* Range.map returns this, the range it was called on, and no new Range
RangeMapReturnsThis(r, c) ==
  mapPos(c, r.anchor, 1) = r.anchor /\ mapPos(c, r.head, 1) = r.head

\* -------------------------------------------------------------- Selection
\* A Selection is its sequence of ranges.
\* Selection.map as it would be had it left the ranges where they were.
SelectionMapKeep(sel, c) == sel

\* Selection.map
SelectionMap(sel, c) == [i \in DOMAIN sel |-> RangeMap(sel[i], c)]
SelectionDefault == <<Range(0, 0)>>

\* --------------------------------------------------- the inputs of a session
Alphabet == <<"a", "b", "c", "d", "e", "f", "g", "h">>
InitDocs == {SubSeq(Alphabet, 1, MaxDoc)}
Texts == {<<>>, <<"X">>}
\* Offsets a caller may pass to setSelection: nothing validates them, so the
\* set reaches below 0 and past the end of every document of the session.
SelInputs ==
  {<<Range(p, p)>> : p \in {-1, 0, MaxDoc, MaxDoc + 1}}
    \cup {<<Range(0, MaxDoc)>>, <<Range(MaxDoc, 0)>>}
    \cup {<<Range(MaxDoc, MaxDoc), Range(0, 0)>>}
\* The selections a session starts with lie inside its document.
InitSels == {SelectionDefault, <<Range(0, 0), Range(MaxDoc - 1, MaxDoc - 1)>>}
Times == {1}
MetaSlots == {"time", "addToHistory"}
MetaValues == {1, 2}
FieldIds == {"f1", "f2"}
NoField == "null"
\* The plugin lists a session is created with: a plugin without a state
\* field, and the two fields in either order.
InitPlugins == {<<>>, <<"f1", NoField, "f2">>, <<"f2", "f1">>}

\* ---------------------------------------------------------- Configuration
\* The constructor as it would be had it passed over a field it already
\* holds instead of throwing.
RECURSIVE ConfigurationFieldsLenient(_, _, _)
ConfigurationFieldsLenient(plugins, i, fields) ==
  IF i > Len(plugins) THEN [ok |-> TRUE, fields |-> fields]
  ELSE LET field == plugins[i] IN
       IF field = NoField \/ \E k \in DOMAIN fields : fields[k] = field
       THEN ConfigurationFieldsLenient(plugins, i + 1, fields)
       ELSE ConfigurationFieldsLenient(plugins, i + 1, Append(fields, field))

\* new Configuration(plugins): the plugins' state fields in plugin order;
\* ok is FALSE where the constructor throws (a field added twice).
RECURSIVE ConfigurationFields(_, _, _)
ConfigurationFields(plugins, i, fields) ==
  IF i > Len(plugins) THEN [ok |-> TRUE, fields |-> fields]
  ELSE LET field == plugins[i] IN
       IF field = NoField THEN ConfigurationFields(plugins, i + 1, fields)
       ELSE IF \E k \in DOMAIN fields : fields[k] = field
            THEN [ok |-> FALSE, fields |-> fields]
       ELSE ConfigurationFields(plugins, i + 1, Append(fields, field))

Configuration(plugins) ==
  [plugins |-> plugins, fields |-> ConfigurationFields(plugins, 1, <<>>).fields]

\* new Configuration(plugins) throws (its Error: a field added twice)
ConfigurationThrows(plugins) == ~ConfigurationFields(plugins, 1, <<>>).ok

\* ------------------------------------------------------------- StateField
\* The field rules of the session. Every field counts the transactions
\* applied (init 0, apply old + 1), and its apply rule also reads one other
\* field through the new state it is handed.
Peek(field) == IF field = "f1" THEN "f2" ELSE "f1"
FieldInit(field, state) == 0

\* EditorState.getField
getField(state, field) == state.fields[field]

FieldApply(field, t, value, newState) ==
  [value |-> value + 1, saw |-> getField(newState, Peek(field))]

\* ------------------------------------------------------------ EditorState
\* new EditorState(config, doc, selection): no field is stored yet.
EditorState(config, doc, selection) ==
  [config |-> config, doc |-> doc, selection |-> selection,
   fields |-> [f \in FieldIds |-> Undefined]]

RECURSIVE createFields(_, _)
createFields(state, i) ==
  IF i > Len(state.config.fields) THEN state
  ELSE LET field == state.config.fields[i] IN
       createFields([state EXCEPT !.fields[field] = FieldInit(field, state)], i + 1)

\* What stands for the state a failed construction did not produce.
NoState == [config |-> 0]

\* EditorState.create({doc, selection, plugins}); selection <<>>: none given.
\* err names what was thrown ("none": nothing).
create(doc, selection, plugins) ==
  IF ConfigurationThrows(plugins) THEN [err |-> "Error", state |-> NoState]
  ELSE [err |-> "none",
        state |-> createFields(
                    EditorState(Configuration(plugins), doc,
                                IF selection = <<>> THEN SelectionDefault ELSE selection), 1)]

\* ------------------------------------------------------------ Transaction
NoTr == [startState |-> 0]
FLAG_SELECTION_SET == 1
FLAG_SCROLL_INTO_VIEW == 2

\* flags | bit, for the two flag bits
FlagOr(flags, bit) == IF (flags \div bit) % 2 = 1 THEN flags ELSE flags + bit
FlagSet(flags, bit) == (flags \div bit) % 2 = 1

\* new Meta(from): a copy of from's entries
Meta(from) == [s \in MetaSlots |-> from[s]]
EmptyMeta == [s \in MetaSlots |-> Undefined]

\* Transaction.start
start(s, time) ==
  [startState |-> s, changes |-> <<>>, docs |-> <<>>,
   selection |-> states[s].selection,
   meta |-> [EmptyMeta EXCEPT !["time"] = time], flags |-> 0]

\* Transaction.doc
TrDoc(t) ==
  LET last == Len(t.docs) IN
  IF last < 1 THEN states[t.startState].doc ELSE t.docs[last]

\* Transaction.setMeta
setMeta(t, slot, value) == [t EXCEPT !.meta = [Meta(t.meta) EXCEPT ![slot] = value]]

\* Transaction.getMeta
getMeta(t, slot) == t.meta[slot]

\* change as it would be had the new change been applied to the start
\* document and the selection been left unmapped.
changeStale(t, c) ==
  IF c.from = c.to /\ c.text = <<>> THEN t
  ELSE [t EXCEPT !.changes = Append(t.changes, c),
                 !.docs = Append(t.docs, ChangeApply(c, TrDoc(t)))]

\* Transaction.change
change(t, c) ==
  IF c.from = c.to /\ c.text = <<>> THEN t
  ELSE [t EXCEPT !.changes = Append(t.changes, c),
                 !.docs = Append(t.docs, ChangeApply(c, TrDoc(t))),
                 !.selection = SelectionMap(t.selection, c)]

\* Transaction.replace
replace(t, from, to, text) == change(t, Change(from, to, text))

\* Transaction.setSelection
setSelection(t, selection) ==
  [t EXCEPT !.selection = selection, !.flags = FlagOr(t.flags, FLAG_SELECTION_SET)]

\* Transaction.selectionSet
selectionSet(t) == FlagSet(t.flags, FLAG_SELECTION_SET)

\* Transaction.scrollIntoView
scrollIntoView(t) == [t EXCEPT !.flags = FlagOr(t.flags, FLAG_SCROLL_INTO_VIEW)]

\* Transaction.scrolledIntoView
scrolledIntoView(t) == FlagSet(t.flags, FLAG_SCROLL_INTO_VIEW)

\* A change the document collaborator accepts for doc.
ValidChange(c, doc) == 0 <= c.from /\ c.from <= c.to /\ c.to <= Len(doc)

\* The per-range transforms handed to reduceRanges: replaceSelection's
\* (replace the range by text), one that adds two changes per range (insert
\* text after and before the range) and one that adds none.
ReduceFs == {[kind |-> "wrap", text |-> <<"X">>], [kind |-> "keep", text |-> <<>>]}
ReplaceSelectionF(text) == [kind |-> "replace", text |-> text]

\* The change calls f makes for range r, in order.
FChanges(f, r) ==
  IF f.kind = "replace" THEN <<Change(RangeFrom(r), RangeTo(r), f.text)>>
  ELSE IF f.kind = "wrap"
    THEN <<Change(RangeTo(r), RangeTo(r), f.text), Change(RangeFrom(r), RangeFrom(r), f.text)>>
  ELSE <<>>

RECURSIVE changeAll(_, _, _)
changeAll(t, cs, i) == IF i > Len(cs) THEN t ELSE changeAll(change(t, cs[i]), cs, i + 1)

\* f(tr, range)
CallF(f, t, r) == changeAll(t, FChanges(f, r), 1)

\* The inner loop as it would be had j started at 0 instead of start.
RECURSIVE mapFromZero(_, _, _)
mapFromZero(range, changes, j) ==
  IF changes = <<>> THEN range
  ELSE mapFromZero(RangeMap(range, Head(changes)), Tail(changes), j)

\* The inner loop of reduceRanges: range mapped through changes[j..].
RECURSIVE mapFrom(_, _, _)
mapFrom(range, changes, j) ==
  IF j > Len(changes) THEN range
  ELSE mapFrom(RangeMap(range, changes[j]), changes, j + 1)

\* The outer loop of reduceRanges from range i on. log: one entry per call
\* of f; made: the change calls f made; ok: FALSE once f would edit outside
\* the document (the document collaborator rejects the edit).
RECURSIVE reduceLoop(_, _, _, _, _)
reduceLoop(f, sel, startIdx, i, acc) ==
  IF i > Len(sel) \/ ~acc.ok THEN acc
  ELSE LET t == acc.tr
           range == mapFrom(sel[i], t.changes, startIdx + 1)
           cs == FChanges(f, range)
           inDoc == \/ 0 <= RangeFrom(range) /\ RangeTo(range) <= Len(TrDoc(t))
                    \/ \A k \in DOMAIN cs : cs[k].from = cs[k].to /\ cs[k].text = <<>>
       IN IF ~inDoc THEN [acc EXCEPT !.ok = FALSE]
          ELSE reduceLoop(f, sel, startIdx, i + 1,
                 [tr |-> CallF(f, t, range),
                  log |-> Append(acc.log, [range |-> range, before |-> Len(t.changes)]),
                  made |-> acc.made \o FChanges(f, range),
                  ok |-> TRUE])

\* Transaction.reduceRanges
reduceRanges(t, f) ==
  reduceLoop(f, t.selection, Len(t.changes), 1,
             [tr |-> t, log |-> <<>>, made |-> <<>>, ok |-> TRUE])

\* Transaction.replaceSelection
replaceSelection(t, text) == reduceRanges(t, ReplaceSelectionF(text))

\* The loop of Transaction.apply from field i on: each field's rule runs
\* with the start state's value and the new state as filled so far.
RECURSIVE applyFields(_, _, _, _)
applyFields(t, newState, i, log) ==
  IF i > Len(newState.config.fields) THEN [state |-> newState, log |-> log]
  ELSE LET field == newState.config.fields[i]
           old == states[t.startState].fields[field]
           r == FieldApply(field, t, old, newState)
       IN applyFields(t, [newState EXCEPT !.fields[field] = r.value], i + 1,
                      Append(log, [field |-> field, old |-> old,
                                   peek |-> Peek(field), saw |-> r.saw]))

\* apply as it would be had it returned early, running no field rule, for
\* a transaction that changes nothing.
applyShortcut(t) ==
  IF t.changes = <<>> /\ ~selectionSet(t)
  THEN [state |-> states[t.startState], log |-> <<>>]
  ELSE applyFields(t, EditorState(states[t.startState].config, TrDoc(t), t.selection), 1, <<>>)

\* Transaction.apply
apply(t) ==
  applyFields(t, EditorState(states[t.startState].config, TrDoc(t), t.selection), 1, <<>>)

NoOutcome == [op |-> "none"]
NoPure == [op |-> "none"]

\* ---------------------------------------------------------------- actions
ChangeCalls(cs) == [i \in DOMAIN cs |-> [op |-> "change", change |-> cs[i]]]

Init ==
  /\ \E doc \in InitDocs, sel \in InitSels, plugins \in InitPlugins :
       states = <<create(doc, sel, plugins).state>>
  /\ tr = NoTr
  /\ ops = 0
  /\ calls = <<>>
  /\ fcalls = <<>>
  /\ applyLog = <<>>
  /\ lastOp = "create"
  /\ heap = <<>>
  /\ arrays = <<>>
  /\ handles = {}
  /\ outcome = NoOutcome
  /\ pin = NoPure
  /\ pout = NoPure
  /\ objs = <<>>
  /\ done = NoOutcome

Building == tr # NoTr /\ ops < MaxOps /\ Len(states) < MaxStates

\* state.transaction / Transaction.start(state, time)
Start ==
  \E s \in DOMAIN states, time \in Times :
    /\ Len(states) < MaxStates
    /\ tr' = start(s, time)
    /\ ops' = 0
    /\ calls' = <<>>
    /\ fcalls' = <<>>
    /\ lastOp' = "start"
    /\ UNCHANGED <<states, applyLog>>
    /\ UNCHANGED <<slotVars, pureVars, objVars>>

\* tr.replace(from, to, text), that is tr.change(new Change(from, to, text))
Replace ==
  /\ Building
  /\ \E from \in 0..Len(TrDoc(tr)), text \in Texts :
       \E to \in from..Len(TrDoc(tr)) :
         /\ tr' = replace(tr, from, to, text)
         /\ calls' = Append(calls, [op |-> "change", change |-> Change(from, to, text)])
  /\ ops' = ops + 1
  /\ lastOp' = "replace"
  /\ UNCHANGED <<states, fcalls, applyLog>>
  /\ UNCHANGED <<slotVars, pureVars, objVars>>

\* tr.replaceSelection(text)
ReplaceSelection ==
  /\ Building
  /\ \E text \in Texts :
       LET r == replaceSelection(tr, text) IN
         /\ r.ok
         /\ tr' = r.tr
         /\ fcalls' = r.log
         /\ calls' = calls \o ChangeCalls(r.made)
  /\ ops' = ops + 1
  /\ lastOp' = "replaceSelection"
  /\ UNCHANGED <<states, applyLog>>
  /\ UNCHANGED <<slotVars, pureVars, objVars>>

\* tr.reduceRanges(f)
ReduceRanges ==
  /\ Building
  /\ \E f \in ReduceFs :
       LET r == reduceRanges(tr, f) IN
         /\ r.ok
         /\ tr' = r.tr
         /\ fcalls' = r.log
         /\ calls' = calls \o ChangeCalls(r.made)
  /\ ops' = ops + 1
  /\ lastOp' = "reduceRanges"
  /\ UNCHANGED <<states, applyLog>>
  /\ UNCHANGED <<slotVars, pureVars, objVars>>

\* tr.setSelection(selection)
SetSelection ==
  /\ Building
  /\ \E sel \in SelInputs :
       /\ tr' = setSelection(tr, sel)
       /\ calls' = Append(calls, [op |-> "setSelection", selection |-> sel])
  /\ ops' = ops + 1
  /\ lastOp' = "setSelection"
  /\ UNCHANGED <<states, fcalls, applyLog>>
  /\ UNCHANGED <<slotVars, pureVars, objVars>>

\* tr.setMeta(slot, value)
SetMeta ==
  /\ Building
  /\ \E slot \in MetaSlots, value \in MetaValues : tr' = setMeta(tr, slot, value)
  /\ ops' = ops + 1
  /\ lastOp' = "setMeta"
  /\ UNCHANGED <<states, calls, fcalls, applyLog>>
  /\ UNCHANGED <<slotVars, pureVars, objVars>>

\* tr.scrollIntoView()
ScrollIntoView ==
  /\ Building
  /\ tr' = scrollIntoView(tr)
  /\ ops' = ops + 1
  /\ lastOp' = "scrollIntoView"
  /\ UNCHANGED <<states, calls, fcalls, applyLog>>
  /\ UNCHANGED <<slotVars, pureVars, objVars>>

\* tr.apply()
Apply ==
  /\ tr # NoTr
  /\ Len(states) < MaxStates
  /\ LET r == apply(tr) IN
       /\ states' = Append(states, r.state)
       /\ applyLog' = r.log
  /\ lastOp' = "apply"
  /\ UNCHANGED <<tr, ops, calls, fcalls>>
  /\ UNCHANGED <<slotVars, pureVars, objVars>>

Next ==
  \/ Start
  \/ Replace
  \/ ReplaceSelection
  \/ ReduceRanges
  \/ SetSelection
  \/ SetMeta
  \/ ScrollIntoView
  \/ Apply

Spec == Init /\ [][Next]_vars

\* ------------------------------------------------------------------ claims
RangeInDoc(r, doc) == 0 <= RangeFrom(r) /\ RangeTo(r) <= Len(doc)
SelInDoc(sel, doc) == \A i \in DOMAIN sel : RangeInDoc(sel[i], doc)
NewState == states[Len(states)]
StartState == states[tr.startState]

\* C1: every selection range of every EditorState of a session lies within
\* [0, doc.length].
C1_SelectionInBounds ==
  \A s \in DOMAIN states : SelInDoc(states[s].selection, states[s].doc)

\* The changes among the logged calls that are not degenerate, in call order.
IsRealChange(e) ==
  e.op = "change" /\ ~(e.change.from = e.change.to /\ e.change.text = <<>>)
RECURSIVE RealChanges(_)
RealChanges(log) ==
  IF log = <<>> THEN <<>>
  ELSE IF IsRealChange(Head(log)) THEN <<Head(log).change>> \o RealChanges(Tail(log))
  ELSE RealChanges(Tail(log))
RECURSIVE DocAfter(_, _)
DocAfter(doc, cs) ==
  IF cs = <<>> THEN doc
  ELSE DocAfter(SubSeq(doc, 1, Head(cs).from) \o Head(cs).text
                  \o SubSeq(doc, Head(cs).to + 1, Len(doc)), Tail(cs))
RECURSIVE SelAfter(_, _)
SelAfter(sel, cs) ==
  IF cs = <<>> THEN sel
  ELSE SelAfter([i \in DOMAIN sel |->
                   Range(mapPos(Head(cs), sel[i].anchor, 1), mapPos(Head(cs), sel[i].head, 1))],
                Tail(cs))
LastSetSelection(log) ==
  LET at == {i \in DOMAIN log : log[i].op = "setSelection"} IN
  IF at = {} THEN 0 ELSE CHOOSE i \in at : \A k \in at : k <= i

\* C2: the changes of a transaction are the non-degenerate changes in call
\* order, its document is the start document with them applied in that
\* order, and its selection is the last selection set (the start state's if
\* none was) mapped through exactly the changes added after it.
C2_CallOrder ==
  tr # NoTr =>
    LET k == LastSetSelection(calls)
        base == IF k = 0 THEN StartState.selection ELSE calls[k].selection
    IN /\ tr.changes = RealChanges(calls)
       /\ Len(tr.docs) = Len(tr.changes)
       /\ TrDoc(tr) = DocAfter(StartState.doc, RealChanges(calls))
       /\ tr.selection = SelAfter(base, RealChanges(SubSeq(calls, k + 1, Len(calls))))

\* C2's case: a change, then a selection set at the end of the document, then
\* the whole document replaced by "X": the cursor set in between is mapped
\* through the last change only and lands behind the "X".
C2_Witness ==
  /\ tr # NoTr
  /\ Len(calls) = 3
  /\ calls[1].op = "change" /\ IsRealChange(calls[1])
  /\ calls[2].op = "setSelection"
  /\ calls[2].selection = <<Range(MaxDoc + 1, MaxDoc + 1)>>
  /\ calls[3].op = "change"
  /\ calls[3].change = Change(0, MaxDoc + 1, <<"X">>)
  /\ TrDoc(tr) = <<"X">>
  /\ tr.selection = <<Range(1, 1)>>

\* C3: reduceRanges calls f once per range of the selection current when it
\* started, in range order, and hands the i-th call the i-th range mapped
\* through the changes the earlier calls added, and through none that was
\* in the transaction before; replaceSelection("X") on "abcdef" with cursors
\* at 0 and 3 reduces the second cursor at 4 and gives "XabcXdef".
C3_ReduceStep ==
  (lastOp' \in {"reduceRanges", "replaceSelection"} /\ tr # NoTr) =>
    LET sel == tr.selection
        before == Len(tr.changes)
    IN /\ Len(fcalls') = Len(sel)
       /\ SubSeq(tr'.changes, 1, before) = tr.changes
       /\ \A i \in DOMAIN sel :
            /\ fcalls'[i].before >= before
            /\ fcalls'[i].before <= Len(tr'.changes)
            /\ (i > 1 => fcalls'[i].before >= fcalls'[i - 1].before)
            /\ fcalls'[i].range =
                 SelAfter(<<sel[i]>>, SubSeq(tr'.changes, before + 1, fcalls'[i].before))[1]
C3_Example ==
  LET t == [startState |-> 1, changes |-> <<Change(0, 1, <<"a">>)>>,
            docs |-> <<<<"a", "b", "c", "d", "e", "f">>>>,
            selection |-> <<Range(0, 0), Range(3, 3)>>,
            meta |-> EmptyMeta, flags |-> 0]
      r == replaceSelection(t, <<"X">>)
  IN /\ r.ok
     /\ r.log = <<[range |-> Range(0, 0), before |-> 1], [range |-> Range(4, 4), before |-> 2]>>
     /\ TrDoc(r.tr) = <<"X", "a", "b", "c", "X", "d", "e", "f">>
\* C3: reduceRanges calls f once per range of the selection it started with,
\* in order, each range mapped through exactly the changes the earlier calls
\* of f added, and leaves the changes of all calls in the transaction; on
\* "abcdef" with cursors at 0 and 3, replaceSelection("X") gives "XabcXdef".
C3_ReduceRanges == [][C3_ReduceStep]_vars /\ []C3_Example

\* C3's case: f added changes for the first range, and the second range was
\* handed over moved by them, in a transaction that already held a change.
C3_Witness ==
  /\ lastOp \in {"reduceRanges", "replaceSelection"}
  /\ Len(fcalls) = 2
  /\ fcalls[1].before >= 1
  /\ fcalls[2].before > fcalls[1].before
  /\ fcalls[2].range # Range(MaxDoc - 1, MaxDoc - 1)

\* C4: while a field's apply rule runs, reading another field through the
\* new state never gives that field's new value.
C4_NoNewValueSeen ==
  lastOp = "apply" =>
    \A i \in DOMAIN applyLog : applyLog[i].saw # NewState.fields[applyLog[i].peek]

\* C5: applying a transaction without changes whose selection was never set
\* gives a new state with the start state's document, selection and
\* configuration, and runs every configured field's apply rule exactly once,
\* in field order, with the start state's value of that field.
C5_EmptyTransaction ==
  (lastOp = "apply" /\ tr.changes = <<>> /\ ~selectionSet(tr)) =>
    /\ Len(states) > tr.startState
    /\ NewState.doc = StartState.doc
    /\ NewState.selection = StartState.selection
    /\ NewState.config = StartState.config
    /\ Len(applyLog) = Len(StartState.config.fields)
    /\ \A i \in DOMAIN applyLog :
         /\ applyLog[i].field = StartState.config.fields[i]
         /\ applyLog[i].old = StartState.fields[applyLog[i].field]
         /\ NewState.fields[applyLog[i].field] = applyLog[i].old + 1

\* C5's case: an empty transaction applied on a state with two fields.
C5_Witness ==
  /\ lastOp = "apply"
  /\ tr.changes = <<>>
  /\ ~selectionSet(tr)
  /\ Len(applyLog) = 2
  /\ NewState.fields = [f \in FieldIds |-> 1]

\* ========================================================================
\* The slot-based EditorState (state/src/state.ts) and the configuration
\* resolver behind it.
\* ========================================================================
MaxDeps == 1       \* slots one slot's rule reads

\* The identities a configuration can hold: one state field and two dynamic
\* facets. Each rule reads up to MaxDeps other identities through the state.
SlotIds == {"f", "g", "h"}
SlotOrder == <<"f", "g", "h">>
Kind(id) == IF id = "f" THEN "field" ELSE "facet"
DepChoices ==
  {d \in UNION {[1..n -> SlotIds] : n \in 0..MaxDeps} :
     \A i, j \in DOMAIN d : i # j => d[i] # d[j]}
Absent == <<"-">>

\* An extension tree, flattened: whether multiple selections are allowed,
\* and for each identity whether it is provided and what its rule reads.
Exts ==
  [allowMultiple : {TRUE}, deps : [SlotIds -> DepChoices \cup {Absent}]]
    \cup [allowMultiple : {FALSE}, deps : [SlotIds -> {<<>>}]]
\* The trees a reconfiguring transaction may carry.
ReconfExts ==
  {[allowMultiple |-> TRUE, deps |-> [id \in SlotIds |-> <<>>]],
   [allowMultiple |-> TRUE, deps |-> [id \in SlotIds |-> IF id = "f" THEN <<"g">> ELSE Absent]],
   [allowMultiple |-> TRUE, deps |-> [id \in SlotIds |-> IF id = "f" THEN <<"f">> ELSE <<>>]]}
NoExt == [allowMultiple |-> FALSE, deps |-> [id \in SlotIds |-> Absent]]

\* SlotStatus
Uninitialized == "Uninitialized"
InProgress == "InProgress"
Done == "Done"

\* What a slot holds before its first evaluation (null).
Null == [n |-> -1, cfg |-> NoExt]

\* Configuration.resolve(extension): the provided identities in precedence
\* order become the dynamic slots, addressed 1, 2, ...; address 0: none.
RECURSIVE resolveSlots(_, _, _)
resolveSlots(ext, i, slots) ==
  IF i > Len(SlotOrder) THEN slots
  ELSE LET id == SlotOrder[i] IN
       IF ext.deps[id] = Absent THEN resolveSlots(ext, i + 1, slots)
       ELSE resolveSlots(ext, i + 1,
              Append(slots, [id |-> id, kind |-> Kind(id), deps |-> ext.deps[id]]))

resolve(ext) ==
  LET slots == resolveSlots(ext, 1, <<>>) IN
  [ext |-> ext,
   dynamicSlots |-> slots,
   address |-> [id \in SlotIds |->
                  IF \E k \in DOMAIN slots : slots[k].id = id
                  THEN CHOOSE k \in DOMAIN slots : slots[k].id = id ELSE 0]]

\* configuration.staticFacet(EditorState.allowMultipleSelections)
staticAllowMultiple(config) == config.ext.allowMultiple

\* A transaction as applyTransaction reads it: its final document and
\* selection and the extension tree it reconfigures to (NoExt: none).
NullTr == [doc |-> <<>>, selection |-> <<>>, reconfigureExt |-> NoExt]

\* JavaScript arrays: a read past the end gives nothing, a write past the end
\* grows the array.
ArrGet(a, i) == IF i \in DOMAIN a THEN a[i] ELSE Null
ArrSet(a, i, v) ==
  [k \in 1..Max(Len(a), i) |-> IF k = i THEN v ELSE ArrGet(a, k)]

\* The working context of one operation: the objects and arrays, what was
\* logged, the error thrown ("none": none) and the value last returned.
Ctx(h, a) == [heap |-> h, arrays |-> a, log |-> <<>>, err |-> "none", ret |-> Null]
Throw(c, e) == [c EXCEPT !.err = e]

\* new EditorState(config, doc, selection, values) as it would be had the
\* values array been kept instead of copied.
ctorShared(c, config, doc, selection, valuesRef) ==
  IF c.err # "none" THEN c
  ELSE IF \E i \in DOMAIN selection : RangeTo(selection[i]) > Len(doc)
    THEN Throw(c, "RangeError")
  ELSE LET n == Len(config.dynamicSlots)
           fresh == valuesRef = 0
           ref == IF fresh THEN Len(c.arrays) + 1 ELSE valuesRef
       IN [c EXCEPT
             !.arrays = IF fresh THEN Append(@, [i \in 1..n |-> Null]) ELSE @,
             !.heap = Append(@, [config |-> config, doc |-> doc, selection |-> selection,
                                 status |-> [i \in 1..n |-> Uninitialized],
                                 values |-> ref, applying |-> NullTr]),
             !.log = Append(@, [kind |-> "new", sid |-> Len(c.heap) + 1, slot |-> 0,
                                from |-> Uninitialized, to |-> Uninitialized])]

\* new EditorState(config, doc, selection, values) as it would be had every
\* slot started out resolved.
ctorResolved(c, config, doc, selection, valuesRef) ==
  IF c.err # "none" THEN c
  ELSE IF \E i \in DOMAIN selection : RangeTo(selection[i]) > Len(doc)
    THEN Throw(c, "RangeError")
  ELSE LET n == Len(config.dynamicSlots) IN
       [c EXCEPT
          !.arrays = Append(@, IF valuesRef = 0 THEN [i \in 1..n |-> Null]
                               ELSE c.arrays[valuesRef]),
          !.heap = Append(@, [config |-> config, doc |-> doc, selection |-> selection,
                              status |-> [i \in 1..n |-> Done],
                              values |-> Len(c.arrays) + 1, applying |-> NullTr]),
          !.log = Append(@, [kind |-> "new", sid |-> Len(c.heap) + 1, slot |-> 0,
                             from |-> Done, to |-> Done])]

\* new EditorState(config, doc, selection, values); valuesRef 0: no values
\* given. The new object is the last of c.heap.
ctor(c, config, doc, selection, valuesRef) ==
  IF c.err # "none" THEN c
  ELSE IF \E i \in DOMAIN selection : RangeTo(selection[i]) > Len(doc)
    THEN Throw(c, "RangeError")
  ELSE LET n == Len(config.dynamicSlots) IN
       [c EXCEPT
          !.arrays = Append(@, IF valuesRef = 0 THEN [i \in 1..n |-> Null]
                               ELSE c.arrays[valuesRef]),
          !.heap = Append(@, [config |-> config, doc |-> doc, selection |-> selection,
                              status |-> [i \in 1..n |-> Uninitialized],
                              values |-> Len(c.arrays) + 1, applying |-> NullTr]),
          !.log = Append(@, [kind |-> "new", sid |-> Len(c.heap) + 1, slot |-> 0,
                             from |-> Uninitialized, to |-> Uninitialized])]

\* state.status[idx] = status
setStatus(c, sid, idx, status) ==
  [c EXCEPT !.heap[sid].status[idx] = status,
            !.log = Append(@, [kind |-> "status", sid |-> sid, slot |-> idx,
                               from |-> c.heap[sid].status[idx], to |-> status])]

\* getAddr(state, addr)
getAddr(c, sid, addr) == [c EXCEPT !.ret = ArrGet(c.arrays[c.heap[sid].values], addr)]

\* The value a slot's rule computes once what it reads is resolved: a field
\* starts at 0 and counts the transactions applied to it, a facet gives the
\* document's length; both are stamped with the configuration they ran under.
slotValue(c, sid, idx) ==
  LET state == c.heap[sid]
      old == ArrGet(c.arrays[state.values], idx)
  IN IF state.config.dynamicSlots[idx].kind = "field"
     THEN [n |-> IF state.applying = NullTr THEN 0
                 ELSE (IF old.n < 0 THEN 0 ELSE old.n) + 1,
           cfg |-> state.config.ext]
     ELSE [n |-> Len(state.doc), cfg |-> state.config.ext]

RECURSIVE ensureAddr(_, _, _)
RECURSIVE readDeps(_, _, _, _)
RECURSIVE field(_, _, _, _)
RECURSIVE facet(_, _, _)

\* ensureAddr(state, addr): resolve the slot unless it is resolved; a slot
\* met while it is being resolved is a cycle.
ensureAddr(c, sid, idx) ==
  IF c.err # "none" THEN c
  ELSE LET status == c.heap[sid].status[idx] IN
       IF status = InProgress
       THEN [Throw(c, "ConfigurationError") EXCEPT
               !.log = Append(@, [kind |-> "cycle", sid |-> sid, slot |-> idx,
                                  from |-> status, to |-> status])]
       ELSE IF status = Done THEN c
       ELSE LET c1 == setStatus(c, sid, idx, InProgress)
                c2 == readDeps(c1, sid, c.heap[sid].config.dynamicSlots[idx].deps, 1)
            IN IF c2.err # "none" THEN c2
               ELSE setStatus(
                      [c2 EXCEPT !.arrays[c2.heap[sid].values] =
                                   ArrSet(@, idx, slotValue(c2, sid, idx))],
                      sid, idx, Done)

\* The reads a slot's rule makes through the state, in order.
readDeps(c, sid, deps, i) ==
  IF i > Len(deps) \/ c.err # "none" THEN c
  ELSE readDeps(IF Kind(deps[i]) = "field" THEN field(c, sid, deps[i], TRUE)
                ELSE facet(c, sid, deps[i]),
                sid, deps, i + 1)

\* EditorState.field(field, require)
field(c, sid, id, require) ==
  LET addr == c.heap[sid].config.address[id] IN
  IF c.err # "none" THEN c
  ELSE IF addr = 0
    THEN IF require THEN Throw(c, "RangeError") ELSE [c EXCEPT !.ret = Null]
  ELSE getAddr(ensureAddr(c, sid, addr), sid, addr)

\* EditorState.facet(facet); a facet that is not configured gives its default.
facet(c, sid, id) ==
  LET addr == c.heap[sid].config.address[id] IN
  IF c.err # "none" THEN c
  ELSE IF addr = 0 THEN [c EXCEPT !.ret = Null]
  ELSE getAddr(ensureAddr(c, sid, addr), sid, addr)

\* initState(state, tr): with state.applying set to tr, run every field's rule.
RECURSIVE initFields(_, _, _)
initFields(c, sid, idx) ==
  IF c.err # "none" \/ idx > Len(c.heap[sid].config.dynamicSlots) THEN c
  ELSE initFields(IF c.heap[sid].config.dynamicSlots[idx].kind = "field"
                  THEN ensureAddr(c, sid, idx) ELSE c,
                  sid, idx + 1)

initState(c, t) ==
  IF c.err # "none" THEN c
  ELSE LET sid == Len(c.heap)
           c1 == initFields([c EXCEPT !.heap[sid].applying = t], sid, 1)
       IN IF c1.err # "none" THEN c1 ELSE [c1 EXCEPT !.heap[sid].applying = NullTr]

\* EditorSelection.asSingle
asSingle(selection) == <<selection[1]>>

\* Strings and documents with lines. A string is a sequence of characters,
\* "CR" and "LF" among them; a Text is its characters with the token "NL"
\* for each line break, so that Len is the document's length.
NL == "NL"
\* No line separator configured (the facet's value is undefined).
NoSep == <<>>

\* configuration.staticFacet(EditorState.lineSeparator)
staticLineSeparator(config) == config.ext.lineSeparator

\* Text.of(string.split(separator || DEFAULT_SPLIT)), DEFAULT_SPLIT being
\* CR LF, CR or LF
RECURSIVE splitLines(_, _)
splitLines(str, sep) ==
  IF str = <<>> THEN <<>>
  ELSE IF sep = NoSep
    THEN IF str[1] = "CR"
         THEN <<NL>> \o splitLines(SubSeq(str, IF Len(str) > 1 /\ str[2] = "LF" THEN 3 ELSE 2,
                                          Len(str)), sep)
         ELSE IF str[1] = "LF" THEN <<NL>> \o splitLines(Tail(str), sep)
         ELSE <<str[1]>> \o splitLines(Tail(str), sep)
  ELSE IF Len(str) >= Len(sep) /\ SubSeq(str, 1, Len(sep)) = sep
    THEN <<NL>> \o splitLines(SubSeq(str, Len(sep) + 1, Len(str)), sep)
  ELSE <<str[1]>> \o splitLines(Tail(str), sep)

\* joinLines as it would be had it joined with LF whatever is configured.
RECURSIVE joinLinesLF(_, _)
joinLinesLF(doc, sep) ==
  IF doc = <<>> THEN <<>>
  ELSE (IF doc[1] = NL THEN <<"LF">> ELSE <<doc[1]>>) \o joinLinesLF(Tail(doc), sep)

\* state.joinLines(doc.sliceLines(0, doc.length)): the lines joined with the
\* configured separator, or LF
RECURSIVE joinLines(_, _)
joinLines(doc, sep) ==
  IF doc = <<>> THEN <<>>
  ELSE (IF doc[1] = NL THEN (IF sep = NoSep THEN <<"LF">> ELSE sep) ELSE <<doc[1]>>)
         \o joinLines(Tail(doc), sep)

\* EditorState.create(config); selection <<>>: none given. doc is a Text
\* (isText) or a string to be split into lines.
slotCreate(c, ext, doc, selection) ==
  LET configuration == resolve(ext)
      text == IF doc.isText THEN doc.value
              ELSE splitLines(doc.value, staticLineSeparator(configuration))
      sel0 == IF selection = <<>> THEN SelectionDefault ELSE selection
      sel == IF ~staticAllowMultiple(configuration) THEN asSingle(sel0) ELSE sel0
  IN initState(ctor(c, configuration, text, sel, 0), NullTr)

\* EditorSelection.toJSON / EditorSelection.fromJSON: the ranges as
\* anchor/head pairs
selectionToJSON(selection) ==
  [ranges |-> [i \in DOMAIN selection |-> <<selection[i].anchor, selection[i].head>>]]
selectionFromJSON(json) ==
  [i \in DOMAIN json.ranges |-> Range(json.ranges[i][1], json.ranges[i][2])]

\* EditorState.toJSON
toJSON(state) ==
  [present |-> TRUE, docType |-> "string",
   doc |-> joinLines(state.doc, staticLineSeparator(state.config)),
   selection |-> selectionToJSON(state.selection)]

\* EditorState.fromJSON(json, config)
fromJSON(c, json, ext) ==
  IF ~json.present \/ json.docType # "string" THEN Throw(c, "RangeError(JSON)")
  ELSE slotCreate(c, ext, [isText |-> FALSE, value |-> json.doc],
                  selectionFromJSON(json.selection))

\* EditorState.applyTransaction(tr). The configuration resolved inside the
\* reconfiguring branch is local to that branch: the state returned is built
\* on the receiver's configuration.
applyTransaction(c, sid, t) ==
  IF t.reconfigureExt # NoExt
  THEN LET inner == resolve(t.reconfigureExt)
           c1 == initState(ctor(c, inner, c.heap[sid].doc, c.heap[sid].selection, 0), NullTr)
       IN IF c1.err # "none" THEN c1
          ELSE initState(ctor(c1, c.heap[sid].config, t.doc, t.selection,
                              c1.heap[Len(c1.heap)].values), t)
  ELSE initState(ctor(c, c.heap[sid].config, t.doc, t.selection, c.heap[sid].values), t)

\* ------------------------------------------------- actions of the slot world
SlotDocs == {<<>>, <<"a">>}
SlotSels == {<<Range(0, 0)>>, <<Range(1, 0)>>, <<Range(0, 0), Range(1, 1)>>}
\* What create is called with; selection <<>>: none given.
CreateInputs ==
  {[doc |-> <<"a">>, selection |-> <<>>],
   [doc |-> <<"a">>, selection |-> <<Range(1, 0)>>],
   [doc |-> <<"a">>, selection |-> <<Range(0, 0), Range(1, 1)>>],
   [doc |-> <<>>, selection |-> <<Range(1, 0)>>]}
\* The transactions applied: any document and selection a transaction can
\* end with, and the reconfiguring ones.
TrInputs ==
  [doc : SlotDocs, selection : SlotSels, reconfigureExt : {NoExt}]
    \cup [doc : {<<"a">>}, selection : {<<Range(1, 0)>>}, reconfigureExt : ReconfExts]

Outcome(op, sid, id, t, c) ==
  [op |-> op, sid |-> sid, id |-> id, t |-> t, err |-> c.err, log |-> c.log,
   result |-> IF c.err = "none" /\ op \in {"create", "applyTransaction", "fromJSON"}
              THEN Len(c.heap) ELSE 0,
   ret |-> c.ret]

SlotInit ==
  /\ heap = <<>>
  /\ arrays = <<>>
  /\ handles = {}
  /\ outcome = NoOutcome
  /\ pin = NoPure
  /\ pout = NoPure
  /\ objs = <<>>
  /\ done = NoOutcome
  /\ states = <<>>
  /\ tr = NoTr
  /\ ops = 0
  /\ calls = <<>>
  /\ fcalls = <<>>
  /\ applyLog = <<>>
  /\ lastOp = "none"

Commit(op, sid, id, t, c) ==
  /\ heap' = c.heap
  /\ arrays' = c.arrays
  /\ handles' = IF c.err = "none" /\ op \in {"create", "applyTransaction", "fromJSON"}
                THEN handles \cup {Len(c.heap)} ELSE handles
  /\ outcome' = Outcome(op, sid, id, t, c)
  /\ UNCHANGED <<trVars, pureVars, objVars>>

\* EditorState.create({doc, selection, extensions})
CreateState ==
  /\ heap = <<>>
  /\ \E ext \in Exts, in \in CreateInputs :
       Commit("create", 0, "",
              [doc |-> in.doc, selection |-> in.selection, reconfigureExt |-> ext],
              slotCreate(Ctx(heap, arrays), ext, [isText |-> TRUE, value |-> in.doc],
                         in.selection))

\* state.field(field, require)
ReadField ==
  \E s \in handles, id \in SlotIds, require \in BOOLEAN :
    /\ Kind(id) = "field"
    /\ Commit(IF require THEN "field" ELSE "fieldOptional", s, id, NullTr,
              field(Ctx(heap, arrays), s, id, require))

\* state.facet(facet)
ReadFacet ==
  \E s \in handles, id \in SlotIds :
    /\ Kind(id) = "facet"
    /\ Commit("facet", s, id, NullTr, facet(Ctx(heap, arrays), s, id))

\* state.applyTransaction(tr)
ApplyTransaction ==
  /\ Len(heap) < MaxStates
  /\ \E s \in handles, t \in TrInputs :
       Commit("applyTransaction", s, "", t, applyTransaction(Ctx(heap, arrays), s, t))

SlotNext ==
  \/ CreateState
  \/ ReadField
  \/ ReadFacet
  \/ ApplyTransaction

SpecSlots == SlotInit /\ [][SlotNext]_vars

\* ------------------------------------------------- claims of the slot world
Reads == {"field", "fieldOptional", "facet"}
Configured(config, id) == config.address[id] # 0
DepsOf(config, id) ==
  IF Configured(config, id)
  THEN {config.dynamicSlots[config.address[id]].deps[i] :
          i \in DOMAIN config.dynamicSlots[config.address[id]].deps}
  ELSE {}
RECURSIVE Closure(_, _)
Closure(config, ids) ==
  LET more == ids \cup UNION {DepsOf(config, x) : x \in ids} IN
  IF more = ids THEN ids ELSE Closure(config, more)
\* What resolving id can come to read, id included.
Reach(config, id) == Closure(config, {id})
\* A dependency cycle can be met when id is resolved.
CycleFrom(config, id) ==
  \E x \in Reach(config, id) : x \in Closure(config, DepsOf(config, x))
\* A field that is not configured can be met when id is resolved.
MissingFrom(config, id) ==
  \E x \in Reach(config, id) : Kind(x) = "field" /\ ~Configured(config, x)
SlotValue(s, idx) == ArrGet(arrays[heap[s].values], idx)

\* C6: applying a reconfiguring transaction gives a state on the
\* configuration resolved from the transaction's extension tree, with the
\* transaction's document and selection, every field of that configuration
\* initialised anew and no value of the old configuration in its slots.
C6_ReconfigureInstalls ==
  (outcome.op = "applyTransaction" /\ outcome.t.reconfigureExt # NoExt
     /\ outcome.err = "none") =>
    LET new == heap[outcome.result]
        config == resolve(outcome.t.reconfigureExt)
    IN /\ new.config = config
       /\ new.doc = outcome.t.doc
       /\ new.selection = outcome.t.selection
       /\ Len(new.status) = Len(config.dynamicSlots)
       /\ \A idx \in DOMAIN config.dynamicSlots :
            config.dynamicSlots[idx].kind = "field" =>
              /\ new.status[idx] = Done
              /\ SlotValue(outcome.result, idx).cfg = outcome.t.reconfigureExt
       /\ \A idx \in DOMAIN arrays[new.values] :
            SlotValue(outcome.result, idx) = Null
              \/ SlotValue(outcome.result, idx).cfg = outcome.t.reconfigureExt

C8_Step ==
  \A s \in DOMAIN heap :
    /\ s \in DOMAIN heap'
    /\ heap'[s].config = heap[s].config
    /\ heap'[s].doc = heap[s].doc
    /\ heap'[s].selection = heap[s].selection
    /\ \A idx \in DOMAIN heap[s].status :
         heap[s].status[idx] = Done =>
           /\ heap'[s].status[idx] = Done
           /\ ArrGet(arrays'[heap'[s].values], idx) = SlotValue(s, idx)
    /\ (outcome'.op \notin Reads \/ outcome'.sid # s) =>
         /\ heap'[s] = heap[s]
         /\ arrays'[heap'[s].values] = arrays[heap[s].values]
C8_ReadsCache ==
  (outcome.op \in Reads /\ outcome.err = "none"
     /\ Configured(heap[outcome.sid].config, outcome.id)) =>
    outcome.ret = SlotValue(outcome.sid, heap[outcome.sid].config.address[outcome.id])
\* C8: a read never changes a slot that is Done, of any state; applying a
\* transaction leaves the slots of every existing state as they are; and a
\* successful read returns the value the state's slot then holds.
C8_WriteOnce == [][C8_Step]_vars /\ []C8_ReadsCache

\* C8's case: a transaction applied on a state whose field is Done: the new
\* state holds the field's next value and the start state still its own.
C8_Witness ==
  /\ outcome.op = "applyTransaction"
  /\ outcome.err = "none"
  /\ Configured(heap[outcome.sid].config, "f")
  /\ heap[outcome.sid].status[1] = Done
  /\ heap[outcome.result].status[1] = Done
  /\ SlotValue(outcome.sid, 1).n = 0
  /\ SlotValue(outcome.result, 1).n = 1

\* ========================================================================
\* The Change algebra on its own: Change.mapPos, Change.invert, Change.apply
\* and Range.map applied to every document, valid change and range within
\* the bounds.
\* ========================================================================
MaxPureDoc == 3    \* length of the documents a change is studied on

PureDocs == {SubSeq(Alphabet, 1, n) : n \in 0..MaxPureDoc}
PureTexts == {<<>>, <<"X">>, <<"X", "Y">>}
PureInputs ==
  {[op |-> "input", doc |-> doc, change |-> Change(from, to, text), range |-> Range(a, h)] :
     doc \in PureDocs, from \in 0..MaxPureDoc, to \in 0..MaxPureDoc, text \in PureTexts,
     a \in 0..MaxPureDoc, h \in 0..MaxPureDoc}

PureInit ==
  /\ \E in \in PureInputs :
       /\ ValidChange(in.change, in.doc)
       /\ RangeTo(in.range) <= Len(in.doc)
       /\ pin = in
  /\ pout = NoPure
  /\ objs = <<>>
  /\ done = NoOutcome
  /\ heap = <<>>
  /\ arrays = <<>>
  /\ handles = {}
  /\ outcome = NoOutcome
  /\ states = <<>>
  /\ tr = NoTr
  /\ ops = 0
  /\ calls = <<>>
  /\ fcalls = <<>>
  /\ applyLog = <<>>
  /\ lastOp = "none"

PureResult(r) == /\ pout' = r
                 /\ UNCHANGED <<pin, trVars, slotVars, objVars>>

\* change.mapPos(pos, bias)
MapPos ==
  \E pos \in 0..Len(pin.doc), bias \in {-1, 1} :
    PureResult([op |-> "mapPos", pos |-> pos, bias |-> bias,
                value |-> mapPos(pin.change, pos, bias)])

\* range.map(change)
MapRange ==
  /\ pin.op = "input"
  /\ PureResult([op |-> "map", range |-> RangeMap(pin.range, pin.change),
                 this |-> RangeMapReturnsThis(pin.range, pin.change)])

\* range.map(change).map(change.invert(doc))
MapBack ==
  /\ pout.op = "map"
  /\ PureResult([op |-> "mapBack",
                 range |-> RangeMap(pout.range, invert(pin.change, pin.doc))])

\* change.invert(doc)
Invert ==
  /\ pin.op = "input"
  /\ PureResult([op |-> "invert", change |-> invert(pin.change, pin.doc)])

\* change.invert(doc).invert(change.apply(doc)): the inverse, inverted against
\* the changed document
Reinvert ==
  /\ pout.op = "invert"
  /\ PureResult([op |-> "reinvert",
                 change |-> invert(pout.change, ChangeApply(pin.change, pin.doc))])

\* change.apply(doc)
ApplyChange ==
  /\ pin.op = "input"
  /\ PureResult([op |-> "apply", doc |-> ChangeApply(pin.change, pin.doc)])

\* change.invert(doc).apply(change.apply(doc))
Undo ==
  /\ pout.op = "apply"
  /\ PureResult([op |-> "undo", doc |-> ChangeApply(invert(pin.change, pin.doc), pout.doc)])

PureNext ==
  \/ MapPos
  \/ MapRange
  \/ MapBack
  \/ Invert
  \/ Reinvert
  \/ ApplyChange
  \/ Undo

SpecChange == PureInit /\ [][PureNext]_vars

\* ------------------------------------------------------ claims on the algebra
PureInsertion(c) == c.from = c.to /\ c.text # <<>>
PureDeletion(c) == c.from < c.to /\ c.text = <<>>
StrictlyInside(c, pos) == c.from < pos /\ pos < c.to

\* C9 as stated: through a pure insertion or a pure deletion and then its
\* inverse, a range whose ends are not strictly inside the deleted interval
\* gets its anchor and head back.
C9_RoundTripAsStated ==
  (pout.op = "mapBack"
     /\ (PureInsertion(pin.change) \/ PureDeletion(pin.change))
     /\ ~StrictlyInside(pin.change, pin.range.anchor)
     /\ ~StrictlyInside(pin.change, pin.range.head)) =>
    pout.range = pin.range

\* C9, amended: the same for a range whose ends are not in the deleted
\* interval [from, to), its start included.
C9_RoundTrip ==
  (pout.op = "mapBack"
     /\ (PureInsertion(pin.change) \/ PureDeletion(pin.change))
     /\ \A pos \in {pin.range.anchor, pin.range.head} :
          ~(pin.change.from <= pos /\ pos < pin.change.to)) =>
    pout.range = pin.range

\* C9's case: a deletion with the anchor before it and the head at its end;
\* the head moves to the deletion's start and comes back.
C9_Witness ==
  /\ pout.op = "mapBack"
  /\ PureDeletion(pin.change)
  /\ pin.range.anchor < pin.change.from
  /\ pin.range.head = pin.change.to
  /\ RangeMap(pin.range, pin.change).head = pin.change.from
  /\ pout.range = pin.range

\* C10: the inverse of a valid change has the same from, to = from +
\* text.length and the replaced content as text; applied to the changed
\* document it gives the document back; inverted against the changed
\* document it gives the change back.
C10_Invert ==
  /\ pout.op = "invert" =>
       /\ pout.change.from = pin.change.from
       /\ pout.change.to = pin.change.from + Len(pin.change.text)
       /\ pout.change.text =
            [i \in 1..(pin.change.to - pin.change.from) |-> pin.doc[pin.change.from + i]]
  /\ pout.op = "undo" => pout.doc = pin.doc
  /\ pout.op = "reinvert" => pout.change = pin.change

\* C10's case: a replacement of part of the document by a text of another
\* length, undone by its inverse.
C10_Witness ==
  /\ pout.op = "undo"
  /\ pin.change.from > 0
  /\ pin.change.to = pin.change.from + 1
  /\ pin.change.to < Len(pin.doc)
  /\ Len(pin.change.text) = 2
  /\ pout.doc = pin.doc

\* ------------------------------------------------------------------- C11
Delta(c) == Len(c.text) - (c.to - c.from)

\* C11 as stated: of the positions outside [from, to), those before from
\* stay and those from to on move by text.length - (to - from), with either
\* bias.
C11_OutsideAsStated ==
  pout.op = "mapPos" =>
    /\ pout.pos < pin.change.from => pout.value = pout.pos
    /\ pout.pos >= pin.change.to => pout.value = pout.pos + Delta(pin.change)

\* C11, amended: positions before from stay; positions behind to, and the
\* position to of a change with from < to, move by text.length - (to -
\* from) with either bias; the position of a pure insertion (from = to)
\* stays with a negative bias and moves by text.length otherwise.
C11_Outside ==
  pout.op = "mapPos" =>
    /\ pout.pos < pin.change.from => pout.value = pout.pos
    /\ pout.pos > pin.change.to => pout.value = pout.pos + Delta(pin.change)
    /\ (pout.pos = pin.change.to /\ pin.change.from < pin.change.to) =>
         pout.value = pout.pos + Delta(pin.change)
    /\ (pout.pos = pin.change.to /\ pin.change.from = pin.change.to) =>
         pout.value = IF pout.bias < 0 THEN pout.pos ELSE pout.pos + Len(pin.change.text)

\* C11's case: an inserting position mapped with the default bias moves by
\* the inserted length, on a change whose text is not empty.
C11_Witness ==
  /\ pout.op = "mapPos"
  /\ pin.change.from = pin.change.to
  /\ pout.pos = pin.change.from
  /\ pout.bias > 0
  /\ Len(pin.change.text) = 2
  /\ pout.value = pout.pos + 2

\* ========================================================================
\* Configuration and EditorState.create of the self-contained core, applied
\* to every plugin list within the bounds, lists that hold a field twice
\* included.
\* ========================================================================
MaxPlugins == 3    \* plugins in one configuration

PluginLists == UNION {[1..n -> FieldIds \cup {NoField}] : n \in 0..MaxPlugins}
\* The selections create is handed; <<>>: none given.
ConfigSels == {<<>>, <<Range(0, 2)>>, <<Range(0, 5)>>, <<Range(1, 1), Range(0, 0)>>}
ConfigInputs ==
  [op : {"config"}, plugins : PluginLists, doc : {<<"a", "b">>}, selection : ConfigSels]
NoConfiguration == [plugins |-> <<>>, fields |-> <<"-">>]

ConfigInit ==
  /\ pin \in ConfigInputs
  /\ pout = NoPure
  /\ objs = <<>>
  /\ done = NoOutcome
  /\ heap = <<>>
  /\ arrays = <<>>
  /\ handles = {}
  /\ outcome = NoOutcome
  /\ states = <<>>
  /\ tr = NoTr
  /\ ops = 0
  /\ calls = <<>>
  /\ fcalls = <<>>
  /\ applyLog = <<>>
  /\ lastOp = "none"

\* new Configuration(plugins)
NewConfiguration ==
  /\ pin.op = "config"
  /\ PureResult(IF ConfigurationThrows(pin.plugins)
                THEN [op |-> "configure", err |-> "Error", config |-> NoConfiguration]
                ELSE [op |-> "configure", err |-> "none",
                      config |-> Configuration(pin.plugins)])

\* EditorState.create({doc, selection, plugins})
CreateEditorState ==
  /\ pin.op = "config"
  /\ LET r == create(pin.doc, pin.selection, pin.plugins) IN
       PureResult([op |-> "create", err |-> r.err, state |-> r.state])

ConfigNext ==
  \/ NewConfiguration
  \/ CreateEditorState

SpecConfig == ConfigInit /\ [][ConfigNext]_vars

\* ------------------------------------------------------------------- C12
\* The same field contributed by two plugins of the list.
Twice(plugins) ==
  \E i, j \in DOMAIN plugins : i < j /\ plugins[i] # NoField /\ plugins[i] = plugins[j]
\* The contributions of a list in order: its entries that are fields.
Contributed(plugins) == SelectSeq(plugins, LAMBDA x : x # NoField)

\* C12: a plugin list that contributes one field twice makes both the
\* configuration's construction and create fail, with no Configuration and
\* no EditorState produced; a list of distinct fields gives a Configuration
\* whose fields are the contributed fields, each once, in the order of the
\* plugins, and create gives a state on that Configuration.
C12_DuplicateField ==
  /\ pout.op = "configure" =>
       IF Twice(pin.plugins)
       THEN pout.err = "Error" /\ pout.config = NoConfiguration
       ELSE /\ pout.err = "none"
            /\ pout.config.fields = Contributed(pin.plugins)
            /\ \A i, j \in DOMAIN pout.config.fields :
                 i # j => pout.config.fields[i] # pout.config.fields[j]
  /\ pout.op = "create" =>
       IF Twice(pin.plugins)
       THEN pout.err = "Error" /\ pout.state = NoState
       ELSE /\ pout.err = "none"
            /\ pout.state.config.fields = Contributed(pin.plugins)
            /\ \A f \in FieldIds :
                 pout.state.fields[f] =
                   IF \E k \in DOMAIN pin.plugins : pin.plugins[k] = f
                   THEN FieldInit(f, pout.state) ELSE Undefined

\* C12's case: create with a list whose first and last plugin contribute
\* the same field, around a plugin without one, has failed.
C12_Witness ==
  /\ pout.op = "create"
  /\ Len(pin.plugins) = 3
  /\ pin.plugins[1] = pin.plugins[3]
  /\ pin.plugins[1] # NoField
  /\ pin.plugins[2] = NoField
  /\ pout.err = "Error"

\* ------------------------------------------------------------------- C13
\* C13: create without a selection gives the single cursor at 0; with a
\* selection it succeeds when every range ends inside the document and
\* fails with a RangeError when one ends behind it.
C13_CreateChecksSelection ==
  (pout.op = "create" /\ ~Twice(pin.plugins)) =>
    /\ pin.selection = <<>> =>
         pout.err = "none" /\ pout.state.selection = <<Range(0, 0)>>
    /\ (pin.selection # <<>>
          /\ \A i \in DOMAIN pin.selection : RangeTo(pin.selection[i]) <= Len(pin.doc)) =>
         pout.err = "none" /\ pout.state.selection = pin.selection
    /\ (\E i \in DOMAIN pin.selection : RangeTo(pin.selection[i]) > Len(pin.doc)) =>
         pout.err = "RangeError"

\* ========================================================================
\* The self-contained core with its objects kept apart: every Range,
\* Selection, array, Meta, Transaction and EditorState is an entry of objs,
\* and an object refers to another by its index. What an operation does to
\* an object it did not create is then visible. Specification SpecObjects.
\* ========================================================================
MaxTrs == 3        \* Transaction objects alive in one session
MaxObjStates == 3  \* EditorState objects alive in one session

\* The working context of one operation: the objects, the reference last
\* returned and the error thrown ("none": none).
ObjCtx(h) == [h |-> h, ret |-> 0, err |-> "none"]
Alloc(c, o) == [c EXCEPT !.h = Append(@, o), !.ret = Len(c.h) + 1]
Fail(c, e) == [c EXCEPT !.err = e]

\* const empty: any[] = [], the one array every fresh transaction shares
EmptyArray == 1

ArrayObj(items) == [kind |-> "Array", items |-> items]
RangeObj(anchor, head) == [kind |-> "Range", anchor |-> anchor, head |-> head]
SelectionObj(ranges) == [kind |-> "Selection", ranges |-> ranges]
MetaObj(table) == [kind |-> "Meta", table |-> table]
\* chain is history: the operations that built the transaction from its start
TransactionObj(startState, changes, docs, selection, meta, flags, chain) ==
  [kind |-> "Transaction", startState |-> startState, changes |-> changes, docs |-> docs,
   selection |-> selection, meta |-> meta, flags |-> flags, chain |-> chain]
\* by is history: the transaction whose apply made the state (0: create)
EditorStateObj(config, doc, selection, by) ==
  [kind |-> "EditorState", config |-> config, doc |-> doc, selection |-> selection,
   fields |-> [f \in FieldIds |-> Undefined], by |-> by]

\* The value of a Selection object: its ranges' anchors and heads.
SelValue(h, sel) ==
  [i \in DOMAIN h[sel].ranges |-> Range(h[h[sel].ranges[i]].anchor, h[h[sel].ranges[i]].head)]

\* new Selection([new Range(..), ..]), by whoever passes a selection in
RECURSIVE newSelection(_, _, _, _)
newSelection(c, sel, i, refs) ==
  IF i > Len(sel) THEN Alloc(c, SelectionObj(refs))
  ELSE LET c1 == Alloc(c, RangeObj(sel[i].anchor, sel[i].head))
       IN newSelection(c1, sel, i + 1, Append(refs, c1.ret))

\* Range.map: this when neither end moves, else a new Range
rangeMapObj(c, r, ch) ==
  LET anchor == mapPos(ch, c.h[r].anchor, 1)
      head == mapPos(ch, c.h[r].head, 1)
  IN IF anchor = c.h[r].anchor /\ head = c.h[r].head THEN [c EXCEPT !.ret = r]
     ELSE Alloc(c, RangeObj(anchor, head))

\* Selection.map: a new Selection of the mapped ranges
RECURSIVE selectionMapObj(_, _, _, _, _)
selectionMapObj(c, sel, ch, i, refs) ==
  IF i > Len(c.h[sel].ranges) THEN Alloc(c, SelectionObj(refs))
  ELSE LET c1 == rangeMapObj(c, c.h[sel].ranges[i], ch)
       IN selectionMapObj(c1, sel, ch, i + 1, Append(refs, c1.ret))

\* EditorState.create; the fields are stored on the new object one by one
RECURSIVE createFieldsObj(_, _, _)
createFieldsObj(c, s, i) ==
  IF i > Len(c.h[s].config.fields) THEN [c EXCEPT !.ret = s]
  ELSE LET fld == c.h[s].config.fields[i] IN
       createFieldsObj([c EXCEPT !.h[s].fields[fld] = FieldInit(fld, c.h[s])], s, i + 1)

createObj(c, doc, selection, plugins) ==
  IF ConfigurationThrows(plugins) THEN Fail(c, "Error")
  ELSE LET c1 == Alloc(c, EditorStateObj(Configuration(plugins), doc, selection, 0))
       IN createFieldsObj(c1, c1.ret, 1)

\* Transaction.start
startObj(c, s, time) ==
  LET c1 == Alloc(c, MetaObj(EmptyMeta))
      meta == c1.ret
      c2 == [c1 EXCEPT !.h[meta].table["time"] = time]
  IN Alloc(c2, TransactionObj(s, EmptyArray, EmptyArray, c.h[s].selection, meta, 0, <<>>))

\* Transaction.doc
docObj(h, t) ==
  LET docs == h[h[t].docs].items
      lastDoc == Len(docs)
  IN IF lastDoc < 1 THEN h[h[t].startState].doc ELSE docs[lastDoc]

\* setMeta as it would be had it written into the receiver's table instead
\* of a copy.
setMetaObjShared(c, t, slot, value) ==
  LET tr0 == c.h[t]
      meta == tr0.meta
      c2 == [c EXCEPT !.h[meta].table[slot] = value]
  IN Alloc(c2, TransactionObj(tr0.startState, tr0.changes, tr0.docs, tr0.selection,
                              meta, tr0.flags, Append(tr0.chain, "setMeta")))

\* Transaction.setMeta
setMetaObj(c, t, slot, value) ==
  LET tr0 == c.h[t]
      c1 == Alloc(c, MetaObj(Meta(c.h[tr0.meta].table)))
      meta == c1.ret
      c2 == [c1 EXCEPT !.h[meta].table[slot] = value]
  IN Alloc(c2, TransactionObj(tr0.startState, tr0.changes, tr0.docs, tr0.selection,
                              meta, tr0.flags, Append(tr0.chain, "setMeta")))

\* Transaction.getMeta
getMetaObj(h, t, slot) == h[h[t].meta].table[slot]

\* change as it would be had it kept a change that replaces nothing by
\* nothing.
changeObjNoElide(c, t, ch) ==
  LET tr0 == c.h[t]
      c1 == Alloc(c, ArrayObj(Append(c.h[tr0.changes].items, ch)))
  IN IF ~ValidChange(ch, docObj(c.h, t)) THEN Fail(c1, "Text")
     ELSE LET c2 == Alloc(c1, ArrayObj(Append(c.h[tr0.docs].items,
                                              ChangeApply(ch, docObj(c.h, t)))))
              c3 == selectionMapObj(c2, tr0.selection, ch, 1, <<>>)
          IN Alloc(c3, TransactionObj(tr0.startState, c1.ret, c2.ret, c3.ret,
                                      tr0.meta, tr0.flags, Append(tr0.chain, "change")))

\* change as it would be had it pushed the change and the document onto the
\* receiver's own arrays.
changeObjPush(c, t, ch) ==
  IF ch.from = ch.to /\ ch.text = <<>> THEN [c EXCEPT !.ret = t]
  ELSE LET tr0 == c.h[t]
           c1 == [c EXCEPT !.h[tr0.changes].items = Append(@, ch)]
       IN IF ~ValidChange(ch, docObj(c.h, t)) THEN Fail(c1, "Text")
          ELSE LET c2 == [c1 EXCEPT !.h[tr0.docs].items =
                                      Append(@, ChangeApply(ch, docObj(c.h, t)))]
                   c3 == selectionMapObj(c2, tr0.selection, ch, 1, <<>>)
               IN Alloc(c3, TransactionObj(tr0.startState, tr0.changes, tr0.docs, c3.ret,
                                           tr0.meta, tr0.flags, Append(tr0.chain, "change")))

\* Transaction.change. The arguments of the new Transaction are evaluated in
\* order: the changes array, then the document (where the collaborator
\* rejects offsets outside the document), then the mapped selection.
changeObj(c, t, ch) ==
  IF ch.from = ch.to /\ ch.text = <<>> THEN [c EXCEPT !.ret = t]
  ELSE LET tr0 == c.h[t]
           c1 == Alloc(c, ArrayObj(Append(c.h[tr0.changes].items, ch)))
       IN IF ~ValidChange(ch, docObj(c.h, t)) THEN Fail(c1, "Text")
          ELSE LET c2 == Alloc(c1, ArrayObj(Append(c.h[tr0.docs].items,
                                                   ChangeApply(ch, docObj(c.h, t)))))
                   c3 == selectionMapObj(c2, tr0.selection, ch, 1, <<>>)
               IN Alloc(c3, TransactionObj(tr0.startState, c1.ret, c2.ret, c3.ret,
                                           tr0.meta, tr0.flags, Append(tr0.chain, "change")))

\* Transaction.replace
replaceObj(c, t, from, to, text) == changeObj(c, t, Change(from, to, text))

\* f(tr, range): the change calls of f, chained
RECURSIVE callFObj(_, _, _, _)
callFObj(c, t, cs, i) ==
  IF c.err # "none" \/ i > Len(cs) THEN [c EXCEPT !.ret = t]
  ELSE LET c1 == changeObj(c, t, cs[i]) IN
       IF c1.err # "none" THEN c1 ELSE callFObj(c1, c1.ret, cs, i + 1)

\* The inner loop of reduceRanges
RECURSIVE mapFromObj(_, _, _, _)
mapFromObj(c, range, changes, j) ==
  IF j > Len(changes) THEN [c EXCEPT !.ret = range]
  ELSE LET c1 == rangeMapObj(c, range, changes[j])
       IN mapFromObj(c1, c1.ret, changes, j + 1)

\* The outer loop of reduceRanges
RECURSIVE reduceLoopObj(_, _, _, _, _, _)
reduceLoopObj(c, f, sel, startIdx, i, t) ==
  IF c.err # "none" THEN c
  ELSE IF i > Len(c.h[sel].ranges) THEN [c EXCEPT !.ret = t]
  ELSE LET c1 == mapFromObj(c, c.h[sel].ranges[i], c.h[c.h[t].changes].items, startIdx + 1)
           range == c1.h[c1.ret]
           c2 == callFObj(c1, t, FChanges(f, Range(range.anchor, range.head)), 1)
       IN IF c2.err # "none" THEN c2
          ELSE reduceLoopObj(c2, f, sel, startIdx, i + 1, c2.ret)

\* Transaction.reduceRanges
reduceRangesObj(c, t, f) ==
  reduceLoopObj(c, f, c.h[t].selection, Len(c.h[c.h[t].changes].items), 1, t)

\* Transaction.replaceSelection
replaceSelectionObj(c, t, text) == reduceRangesObj(c, t, ReplaceSelectionF(text))

\* setSelection as it would be had it stored its flag in place of the
\* receiver's flags.
setSelectionObjOverwrite(c, t, selection) ==
  LET tr0 == c.h[t] IN
  Alloc(c, TransactionObj(tr0.startState, tr0.changes, tr0.docs, selection, tr0.meta,
                          FLAG_SELECTION_SET, Append(tr0.chain, "setSelection")))

\* Transaction.setSelection
setSelectionObj(c, t, selection) ==
  LET tr0 == c.h[t] IN
  Alloc(c, TransactionObj(tr0.startState, tr0.changes, tr0.docs, selection, tr0.meta,
                          FlagOr(tr0.flags, FLAG_SELECTION_SET),
                          Append(tr0.chain, "setSelection")))

\* Transaction.selectionSet
selectionSetObj(h, t) == FlagSet(h[t].flags, FLAG_SELECTION_SET)

\* Transaction.scrolledIntoView
scrolledIntoViewObj(h, t) == FlagSet(h[t].flags, FLAG_SCROLL_INTO_VIEW)

\* Transaction.scrollIntoView
scrollIntoViewObj(c, t) ==
  LET tr0 == c.h[t] IN
  Alloc(c, TransactionObj(tr0.startState, tr0.changes, tr0.docs, tr0.selection, tr0.meta,
                          FlagOr(tr0.flags, FLAG_SCROLL_INTO_VIEW),
                          Append(tr0.chain, "scrollIntoView")))

\* The loop of Transaction.apply: each rule's value is stored on the new
\* state, and on nothing else.
RECURSIVE applyFieldsObj(_, _, _, _)
applyFieldsObj(c, t, newState, i) ==
  IF i > Len(c.h[newState].config.fields) THEN [c EXCEPT !.ret = newState]
  ELSE LET fld == c.h[newState].config.fields[i]
           r == FieldApply(fld, c.h[t], c.h[c.h[t].startState].fields[fld], c.h[newState])
       IN applyFieldsObj([c EXCEPT !.h[newState].fields[fld] = r.value], t, newState, i + 1)

\* Transaction.apply
applyObj(c, t) ==
  LET c1 == Alloc(c, EditorStateObj(c.h[c.h[t].startState].config, docObj(c.h, t),
                                    c.h[t].selection, t))
  IN applyFieldsObj(c1, t, c1.ret, 1)

\* --------------------------------------------- actions of the object world
Transactions == {t \in DOMAIN objs : objs[t].kind = "Transaction"}
EditorStates == {s \in DOMAIN objs : objs[s].kind = "EditorState"}
CanBuild == Cardinality(Transactions) < MaxTrs

ObjSels == {<<Range(1, 1)>>, <<Range(0, 2)>>, <<Range(3, 3)>>}
ObjTexts == {<<>>, <<"X">>}
ObjTimes == {7}

\* What an operation leaves behind: the objects as they are after it, those
\* it allocated included when it returned normally. After a throw nothing
\* refers to what it allocated, and only the objects that were there before
\* are kept.
Finish(op, recv, arg, c) ==
  /\ objs' = IF c.err = "none" THEN c.h ELSE SubSeq(c.h, 1, Len(objs))
  /\ done' = [op |-> op, recv |-> recv, arg |-> arg, err |-> c.err,
              ret |-> IF c.err = "none" THEN c.ret ELSE 0]
  /\ UNCHANGED <<trVars, slotVars, pureVars>>

\* The module is loaded (the shared empty array, Selection.default), and
\* EditorState.create({doc, selection, plugins}) has made the first state.
ObjInit ==
  /\ \E given \in {<<>>, <<Range(0, 0), Range(1, 1)>>}, plugins \in {<<"f1", "f2">>} :
       LET c0 == newSelection(ObjCtx(<<ArrayObj(<<>>)>>), SelectionDefault, 1, <<>>)
           c1 == IF given = <<>> THEN c0 ELSE newSelection(c0, given, 1, <<>>)
       IN objs = createObj(c1, <<"a", "b">>, c1.ret, plugins).h
  /\ done = NoOutcome
  /\ pin = NoPure
  /\ pout = NoPure
  /\ heap = <<>>
  /\ arrays = <<>>
  /\ handles = {}
  /\ outcome = NoOutcome
  /\ states = <<>>
  /\ tr = NoTr
  /\ ops = 0
  /\ calls = <<>>
  /\ fcalls = <<>>
  /\ applyLog = <<>>
  /\ lastOp = "none"

\* Transaction.start(state, time)
ObjStart ==
  /\ CanBuild
  /\ \E s \in EditorStates, time \in ObjTimes :
       Finish("start", s, [time |-> time], startObj(ObjCtx(objs), s, time))

\* tr.setMeta(slot, value)
ObjSetMeta ==
  /\ CanBuild
  /\ \E t \in Transactions, slot \in MetaSlots, value \in MetaValues :
       Finish("setMeta", t, [slot |-> slot, value |-> value],
              setMetaObj(ObjCtx(objs), t, slot, value))

\* tr.replace(from, to, text), offsets outside the document included
ObjReplace ==
  /\ CanBuild
  /\ \E t \in Transactions, text \in ObjTexts :
       \E from \in 0..(Len(docObj(objs, t)) + 1) :
         \E to \in from..(Len(docObj(objs, t)) + 1) :
           Finish("replace", t, Change(from, to, text),
                  replaceObj(ObjCtx(objs), t, from, to, text))

\* tr.replaceSelection(text)
ObjReplaceSelection ==
  /\ CanBuild
  /\ \E t \in Transactions, text \in ObjTexts :
       Finish("replaceSelection", t, [text |-> text],
              replaceSelectionObj(ObjCtx(objs), t, text))

\* tr.reduceRanges(f)
ObjReduceRanges ==
  /\ CanBuild
  /\ \E t \in Transactions, f \in ReduceFs :
       Finish("reduceRanges", t, f, reduceRangesObj(ObjCtx(objs), t, f))

\* tr.setSelection(new Selection([..]))
ObjSetSelection ==
  /\ CanBuild
  /\ \E t \in Transactions, sel \in ObjSels :
       LET c1 == newSelection(ObjCtx(objs), sel, 1, <<>>) IN
       Finish("setSelection", t, [selection |-> sel], setSelectionObj(c1, t, c1.ret))

\* tr.scrollIntoView()
ObjScrollIntoView ==
  /\ CanBuild
  /\ \E t \in Transactions :
       Finish("scrollIntoView", t, [none |-> 0], scrollIntoViewObj(ObjCtx(objs), t))

\* tr.apply()
ObjApply ==
  /\ Cardinality(EditorStates) < MaxObjStates
  /\ \E t \in Transactions :
       Finish("apply", t, [none |-> 0], applyObj(ObjCtx(objs), t))

ObjNext ==
  \/ ObjStart
  \/ ObjSetMeta
  \/ ObjReplace
  \/ ObjReplaceSelection
  \/ ObjReduceRanges
  \/ ObjSetSelection
  \/ ObjScrollIntoView
  \/ ObjApply

SpecObjects == ObjInit /\ [][ObjNext]_vars

\* ------------------------------------------------------------------- C14
IsTransaction(h, t) == t \in DOMAIN h /\ h[t].kind = "Transaction"

\* What setMeta did in the last step: the transaction it returned has the
\* value under the slot and the receiver's values under the others, and the
\* receiver's start state, changes, docs, selection and flags.
SetMetaStep ==
  (done'.op = "setMeta" /\ done'.err = "none") =>
    LET t1 == done'.recv
        t2 == done'.ret
    IN /\ t2 \notin DOMAIN objs
       /\ getMetaObj(objs', t2, done'.arg.slot) = done'.arg.value
       /\ \A s \in MetaSlots \ {done'.arg.slot} :
            getMetaObj(objs', t2, s) = getMetaObj(objs, t1, s)
       /\ objs'[t2].startState = objs[t1].startState
       /\ objs'[t2].changes = objs[t1].changes
       /\ objs'[t2].docs = objs[t1].docs
       /\ objs'[t2].selection = objs[t1].selection
       /\ objs'[t2].flags = objs[t1].flags

\* No step changes what getMeta returns on a transaction that exists, the
\* receiver of a setMeta and its siblings included.
MetaKept ==
  \A t \in DOMAIN objs :
    IsTransaction(objs, t) =>
      \A s \in MetaSlots : getMetaObj(objs', t, s) = getMetaObj(objs, t, s)

\* A transaction just opened returns the time it was opened with.
TimeStamped ==
  (done.op = "start" /\ done.err = "none") =>
    getMetaObj(objs, done.ret, "time") = done.arg.time

\* C14: setMeta is copy-on-write (the returned transaction differs from the
\* receiver in the one slot only, and no transaction that exists ever sees
\* a value set on another), and a transaction opened with a timestamp
\* returns it from getMeta(time).
C14_SetMetaCopies == [][SetMetaStep /\ MetaKept]_vars /\ []TimeStamped

\* C14's case: two transactions derived by setMeta from one parent hold
\* different values under one slot, and the parent still holds none.
C14_Witness ==
  \E p, a, b \in Transactions :
    /\ objs[p].chain = <<>>
    /\ objs[a].chain = <<"setMeta">>
    /\ objs[b].chain = <<"setMeta">>
    /\ getMetaObj(objs, p, "addToHistory") = Undefined
    /\ getMetaObj(objs, a, "addToHistory") = 1
    /\ getMetaObj(objs, b, "addToHistory") = 2

\* ------------------------------------------------------------------- C15
\* No step, failed or not, changes an object that exists: the receiver, its
\* arrays, selection and Meta, its start state, and every other transaction
\* and state.
ObjectsKept == \A i \in DOMAIN objs : i \in DOMAIN objs' /\ objs'[i] = objs[i]

\* Every state made by apply is what its transaction and that transaction's
\* start state determine, however many other calls were made: the
\* transaction's document and selection, the start state's configuration,
\* and each configured field's rule run on the start state's value.
AppliedAlone ==
  \A s \in EditorStates :
    objs[s].by # 0 =>
      LET t == objs[s].by
          s0 == objs[objs[s].by].startState
      IN /\ objs[s].doc = docObj(objs, t)
         /\ objs[s].selection = objs[t].selection
         /\ objs[s].config = objs[s0].config
         /\ \A f \in FieldIds :
              objs[s].fields[f] =
                IF \E k \in DOMAIN objs[s0].config.fields : objs[s0].config.fields[k] = f
                THEN objs[s0].fields[f] + 1 ELSE Undefined

\* apply returns an object that was not there before.
AppliedNew == (done'.op = "apply" /\ done'.err = "none") => done'.ret \notin DOMAIN objs

\* C15: transactions and states are immutable values: every operation of
\* Transaction, whether it returns or throws, leaves every existing
\* transaction and state as it was, and each apply, repeated or on a
\* sibling, gives a new state equal to what it would give alone.
C15_Immutable == [][ObjectsKept /\ AppliedNew]_vars /\ []AppliedAlone

\* C15's case: a transaction with a change was applied twice, giving two
\* states with the same document, and a replace on a transaction has just
\* failed.
C15_Witness ==
  /\ done.op = "replace"
  /\ done.err # "none"
  /\ \E a, b \in EditorStates :
       /\ a # b
       /\ objs[a].by # 0
       /\ objs[a].by = objs[b].by
       /\ objs[objs[a].by].chain = <<"change">>
       /\ objs[a].doc = objs[b].doc
       /\ objs[a].fields = objs[b].fields

\* ------------------------------------------------------------------- C16
Degenerate(ch) == ch.from = ch.to /\ ch.text = <<>>

\* A replace of nothing by nothing returns its receiver and allocates
\* nothing.
ElidedStep ==
  (done'.op = "replace" /\ Degenerate(done'.arg)) =>
    /\ done'.err = "none"
    /\ done'.ret = done'.recv
    /\ objs' = objs

\* No transaction holds a degenerate change, and each holds one document
\* per change: the document that change gave.
ChangesAndDocs ==
  \A t \in Transactions :
    LET changes == objs[objs[t].changes].items
        docs == objs[objs[t].docs].items
    IN /\ \A k \in DOMAIN changes : ~Degenerate(changes[k])
       /\ Len(docs) = Len(changes)
       /\ \A k \in DOMAIN changes :
            docs[k] = ChangeApply(changes[k],
                                  IF k = 1 THEN objs[objs[t].startState].doc ELSE docs[k - 1])

\* C16: change with from = to and empty text returns the very same
\* transaction, so no transaction's changes hold a degenerate change, and
\* docs always has one entry per entry of changes.
C16_Elided == [][ElidedStep]_vars /\ []ChangesAndDocs

\* C16's case: a degenerate replace, at an offset behind the document's
\* end, on a transaction that holds a change, gave the receiver back.
C16_Witness ==
  /\ done.op = "replace"
  /\ Degenerate(done.arg)
  /\ done.arg.from > Len(docObj(objs, done.recv))
  /\ done.ret = done.recv
  /\ Len(objs[objs[done.recv].changes].items) = 1

\* ------------------------------------------------------------------- C17
InChain(t, op) == \E k \in DOMAIN objs[t].chain : objs[t].chain[k] = op

\* Each flag of a transaction is raised exactly when its operation is among
\* those that built the transaction from its start.
FlagsFollowChain ==
  \A t \in Transactions :
    /\ selectionSetObj(objs, t) <=> InChain(t, "setSelection")
    /\ scrolledIntoViewObj(objs, t) <=> InChain(t, "scrollIntoView")

\* setSelection gives a transaction with the selection handed in and the
\* receiver's changes, docs and meta.
SetSelectionStep ==
  (done'.op = "setSelection" /\ done'.err = "none") =>
    LET t1 == done'.recv
        t2 == done'.ret
    IN /\ SelValue(objs', objs'[t2].selection) = done'.arg.selection
       /\ objs'[t2].changes = objs[t1].changes
       /\ objs'[t2].docs = objs[t1].docs
       /\ objs'[t2].meta = objs[t1].meta
       /\ objs'[t2].startState = objs[t1].startState

\* C17: selectionSet is true exactly when setSelection was called in the
\* chain of operations that built the transaction (a fresh transaction has
\* it false; change, replace, replaceSelection, setMeta and scrollIntoView
\* do not raise it; nothing clears it), setSelection replaces the selection
\* and touches neither changes, docs nor meta, and scrolledIntoView is true
\* exactly when scrollIntoView was called.
C17_Flags == [][SetSelectionStep]_vars /\ []FlagsFollowChain

\* C17's case: a transaction built by scrollIntoView and then setSelection
\* has both flags, while its parent has the first only and a fresh one none.
C17_Witness ==
  \E a, b, d \in Transactions :
    /\ objs[a].chain = <<>>
    /\ ~selectionSetObj(objs, a) /\ ~scrolledIntoViewObj(objs, a)
    /\ objs[b].chain = <<"scrollIntoView">>
    /\ ~selectionSetObj(objs, b) /\ scrolledIntoViewObj(objs, b)
    /\ objs[d].chain = <<"scrollIntoView", "setSelection">>
    /\ selectionSetObj(objs, d) /\ scrolledIntoViewObj(objs, d)

\* ========================================================================
\* Serialization of the slot-based EditorState: states created from strings
\* with line breaks, under configurations with and without a line
\* separator, written with toJSON and read back with fromJSON.
\* Specification SpecJson.
\* ========================================================================
MaxJsonDoc == 3    \* length of the strings a state is created from
MaxJsonStates == 3 \* EditorState objects alive in one session

JsonChars == {"a", "CR", "LF"}
JsonStrings == UNION {[1..n -> JsonChars] : n \in 0..MaxJsonDoc}
JsonExts ==
  [allowMultiple : BOOLEAN,
   deps : {[id \in SlotIds |-> IF id = "h" THEN Absent ELSE <<>>]},
   lineSeparator : {NoSep, <<"CR", "LF">>}]
\* The selections create is handed; <<>>: none given.
JsonSels == {<<>>, <<Range(1, 0)>>, <<Range(0, 0), Range(1, 1)>>}
\* What a transaction of the session ends with: a document the configured
\* splitting gives, and a selection inside it with as many ranges as the
\* configuration allows.
JsonTrInputs(config) ==
  [doc : {splitLines(str, staticLineSeparator(config)) :
            str \in {<<"a", "LF", "a">>, <<"CR", "CR", "LF">>}},
   selection : {<<Range(0, 1)>>} \cup
               (IF staticAllowMultiple(config) THEN {<<Range(1, 1), Range(0, 0)>>} ELSE {}),
   reconfigureExt : {NoExt}]
\* Payloads that are no serialized state: none at all, and one whose doc is
\* a number.
NoJson == [present |-> FALSE, docType |-> "undefined", doc |-> <<>>,
           selection |-> selectionToJSON(SelectionDefault)]
NumberJson == [present |-> TRUE, docType |-> "number", doc |-> <<>>,
               selection |-> selectionToJSON(SelectionDefault)]

JsonInit ==
  /\ pin \in [op : {"json"}, ext : JsonExts, doc : JsonStrings, selection : JsonSels]
  /\ pout = NoPure
  /\ objs = <<>>
  /\ done = NoOutcome
  /\ heap = <<>>
  /\ arrays = <<>>
  /\ handles = {}
  /\ outcome = NoOutcome
  /\ states = <<>>
  /\ tr = NoTr
  /\ ops = 0
  /\ calls = <<>>
  /\ fcalls = <<>>
  /\ applyLog = <<>>
  /\ lastOp = "none"

JsonCommit(op, sid, t, c) ==
  /\ heap' = c.heap
  /\ arrays' = c.arrays
  /\ handles' = IF c.err = "none" THEN handles \cup {Len(c.heap)} ELSE handles
  /\ outcome' = Outcome(op, sid, "", t, c)
  /\ UNCHANGED <<trVars, pin, objVars>>

\* EditorState.create({doc: string, selection, extensions})
JsonCreate ==
  /\ heap = <<>>
  /\ pout' = pout
  /\ JsonCommit("create", 0, NullTr,
                slotCreate(Ctx(heap, arrays), pin.ext,
                           [isText |-> FALSE, value |-> pin.doc], pin.selection))

\* state.applyTransaction(tr)
JsonApplyTransaction ==
  /\ Len(heap) < MaxJsonStates - 1
  /\ pout' = pout
  /\ \E s \in handles :
       \E t \in JsonTrInputs(heap[s].config) :
         JsonCommit("applyTransaction", s, t, applyTransaction(Ctx(heap, arrays), s, t))

\* state.toJSON()
ToJSON ==
  /\ \E s \in handles : pout' = [op |-> "toJSON", sid |-> s, json |-> toJSON(heap[s])]
  /\ UNCHANGED <<trVars, slotVars, pin, objVars>>

\* EditorState.fromJSON(state.toJSON(), {extensions}) with the extensions
\* the state was created with
FromJSON ==
  /\ pout.op = "toJSON"
  /\ Len(heap) < MaxJsonStates
  /\ pout' = pout
  /\ JsonCommit("fromJSON", pout.sid, pout.json,
                fromJSON(Ctx(heap, arrays), pout.json, heap[pout.sid].config.ext))

\* EditorState.fromJSON(payload, {extensions}) with a payload that is no
\* serialized state
FromJSONMalformed ==
  /\ Len(heap) < MaxJsonStates
  /\ pout' = pout
  /\ \E json \in {NoJson, NumberJson} :
       JsonCommit("fromJSON", 0, json, fromJSON(Ctx(heap, arrays), json, pin.ext))

JsonNext ==
  \/ JsonCreate
  \/ JsonApplyTransaction
  \/ ToJSON
  \/ FromJSON
  \/ FromJSONMalformed

SpecJson == JsonInit /\ [][JsonNext]_vars

Resolve(c, pos, bias) ==
  IF c.from = c.to THEN (IF bias < 0 THEN c.from ELSE c.from + Len(c.text))
  ELSE IF pos = c.from THEN c.from
  ELSE IF pos = c.to THEN c.from + Len(c.text)
  ELSE IF bias < 0 THEN c.from ELSE c.from + Len(c.text)
Within(c, pos) == c.from <= pos /\ pos <= c.to

\* C19: mapPos sends a position with from <= p <= to where the rule says,
\* for either bias; Range.map sends anchor and head there with bias +1, each
\* on its own, and returns the range it was called on exactly when neither
\* moves.
C19_EdgeRule ==
  /\ (pout.op = "mapPos" /\ Within(pin.change, pout.pos)) =>
       pout.value = Resolve(pin.change, pout.pos, pout.bias)
  /\ pout.op = "map" =>
       /\ Within(pin.change, pin.range.anchor) =>
            pout.range.anchor = Resolve(pin.change, pin.range.anchor, 1)
       /\ Within(pin.change, pin.range.head) =>
            pout.range.head = Resolve(pin.change, pin.range.head, 1)
       /\ pout.this <=> pout.range = pin.range

\* C19's case: the end of a replaced stretch, mapped with a negative bias,
\* went behind the inserted text all the same.
C19_Witness ==
  /\ pout.op = "mapPos"
  /\ pin.change.from < pin.change.to
  /\ pin.change.text # <<>>
  /\ pout.pos = pin.change.to
  /\ pout.bias < 0
  /\ pout.value = pin.change.from + Len(pin.change.text)

\* ------------------------------------------------------------------- C20
NoSetSelection == \A k \in DOMAIN calls : calls[k].op # "setSelection"
RECURSIVE ThroughAll(_, _, _)
ThroughAll(r, changes, k) ==
  IF k > Len(changes) THEN r ELSE ThroughAll(RangeMap(r, changes[k]), changes, k + 1)

\* C20: on a transaction opened from a state whose selection is inside its
\* document and built by change, replace and replaceSelection only, each
\* change valid for the document of its time, every range of the selection
\* is inside the transaction's document, the ranges are the start
\* selection's, one for one and in order, carried through the changes, and
\* the state apply gives has a selection the constructor's bounds check
\* accepts.
C20_MappedInBounds ==
  (tr # NoTr /\ NoSetSelection
     /\ SelInDoc(states[tr.startState].selection, states[tr.startState].doc)) =>
    /\ SelInDoc(tr.selection, TrDoc(tr))
    /\ Len(tr.selection) = Len(states[tr.startState].selection)
    /\ \A i \in DOMAIN tr.selection :
         tr.selection[i] = ThroughAll(states[tr.startState].selection[i], tr.changes, 1)
    /\ lastOp = "apply" =>
         /\ NewState.doc = TrDoc(tr)
         /\ NewState.selection = tr.selection
         /\ SelInDoc(NewState.selection, NewState.doc)

\* C20's case: a transaction on a two-cursor selection that deleted the
\* whole document and inserted a text, no selection set, was applied; both
\* cursors moved and lie inside the new document.
C20_Witness ==
  /\ lastOp = "apply"
  /\ tr # NoTr
  /\ NoSetSelection
  /\ Len(tr.selection) = 2
  /\ Len(tr.changes) = 2
  /\ tr.changes[1].to - tr.changes[1].from = MaxDoc
  /\ tr.changes[1].text = <<>>
  /\ tr.changes[2].text # <<>>
  /\ NewState.selection # states[tr.startState].selection
  /\ SelInDoc(NewState.selection, NewState.doc)

====
